---- MODULE Spec2Model ----
(***************************************************************************)
(* Model of the real-time metrics core of the ADmyBRAND Insights dashboard *)
(* (src/lib/export-utils.ts): the metric generator (generateVariation,     *)
(* generateMetricsData), the mock API and the polling hook                 *)
(* useRealTimeMetrics with its two effects (lifecycle and visibility);     *)
(* and of the components around it: the Dashboard's previousMetrics, the   *)
(* OverviewCard animation (src/components/dashboard/OverviewCard.tsx), the *)
(* export functions and the DataTable (src/unnamed/part_005).  Each has    *)
(* its own specification; the variables of the others stay at rest.        *)
(*                                                                         *)
(* Numbers.  Math.random() is a draw k/DrawSteps with k in 0..DrawSteps-1  *)
(* (the interval [0,1) sampled on a grid).  Baselines are kept in tenths,  *)
(* and a value produced by generateVariation is an integer count of        *)
(* 1/Unit, Unit = 1000 * DrawSteps, so that the arithmetic of the source   *)
(* is exact here:                                                          *)
(*   base * (1 + (k/N - 0.5) * 2 * (pct/100))                              *)
(*     = base10 * (100*N + (2*k - N) * pct) / (1000 * N).                  *)
(***************************************************************************)
EXTENDS Integers, Sequences, FiniteSets, TLC

VARIABLES
    phase,        \* "rendered" (hook state initialised, effects not yet run), "live", "unmounted"
    intervalMs,   \* the intervalMs argument captured by the current startPolling closure
    metricsData,  \* the useState snapshot: timestamp, metrics, isLoading, error
    intervalRef,  \* intervalRef.current: NoTimer (null) or a timer id
    mountedRef,   \* mountedRef.current
    timers,       \* the host's active setInterval timers: records [id, ms]
    inflight,     \* fetch cycles suspended at `await MockAPI.fetchMetrics()`, oldest first
    hidden,       \* document.hidden
    listening,    \* the visibilitychange listener is subscribed
    now,          \* Date.now()
    lastOp,       \* history: the last operation performed
    lastFetch,    \* history: the fetch cycle the last operation resumed, if any
    before,       \* history: metricsData.error and intervalRef.current before the last operation
    draw,         \* generator harness: the random draws of one invocation
    gen,          \* generator harness: the result of the invocation
    gpc,          \* generator harness: "ready" | "done"
    realtimeMetrics,    \* Dashboard: the metrics the hook returned at the last render
    previousMetrics,    \* Dashboard: the previousMetrics state
    precedingMetrics,   \* history: the metrics of the snapshot before the current one
    cardPhase,          \* OverviewCard: "rendered" | "live" | "unmounted"
    cardValue,          \* OverviewCard: the value prop
    cardPreviousValue,  \* OverviewCard: the previousValue prop
    displayValue,       \* OverviewCard: the displayValue state
    isAnimating,        \* OverviewCard: the isAnimating state
    cardTimer,          \* OverviewCard: the pending 300 ms timeout (the value it captured)
    tzOffset,           \* DataTable: local time minus UTC, in hours
    tableData,          \* DataTable: the data prop
    tableLoading,       \* DataTable: the isLoading prop
    enableDateFilter,   \* DataTable: the enableDateFilter prop
    dateFilterKey,      \* DataTable: the dateFilterKey prop
    dateRange,          \* DataTable: the dateRange state
    toasts,             \* the toasts the last step raised
    domLog,             \* the browser side effects of the last step, in order
    exportArg,          \* history: the data the last step passed to an export function
    thrownOut,          \* history: what the last step threw to its caller
    handlerTrace,       \* history: what formatting and export threw inside the last handler
    printWindows,       \* print windows waiting for their load event
    lastTableOp         \* history: the last table / export operation

vars == <<phase, intervalMs, metricsData, intervalRef, mountedRef, timers,
          inflight, hidden, listening, now, lastOp, lastFetch, before,
          draw, gen, gpc,
          realtimeMetrics, previousMetrics, precedingMetrics,
          cardPhase, cardValue, cardPreviousValue, displayValue, isAnimating,
          cardTimer,
          tzOffset, tableData, tableLoading, enableDateFilter, dateFilterKey,
          dateRange, toasts, domLog, exportArg, thrownOut, handlerTrace,
          printWindows, lastTableOp>>

hookVars == <<phase, intervalMs, metricsData, intervalRef, mountedRef, timers,
              inflight, hidden, listening, now, lastOp, lastFetch,
              before>>

genVars == <<draw, gen, gpc>>

dashVars == <<realtimeMetrics, previousMetrics, precedingMetrics>>

cardVars == <<cardPhase, cardValue, cardPreviousValue, displayValue,
              isAnimating, cardTimer>>

tableVars == <<tzOffset, tableData, tableLoading, enableDateFilter,
               dateFilterKey, dateRange, toasts, domLog, exportArg,
               thrownOut, handlerTrace, printWindows, lastTableOp>>

uiVars == <<dashVars, cardVars, tableVars>>

----------------------------------------------------------------------------
(* Bounds *)

DrawSteps == 4      \* grid of Math.random(): k / DrawSteps
MaxInFlight == 2    \* fetch cycles awaiting the API at the same time
MaxTime == 1        \* clock readings 0..MaxTime
MaxDay == 3         \* days the date picker offers: 1..MaxDay
MaxWindows == 1     \* print windows waiting to load at the same time

----------------------------------------------------------------------------
(* Metric generator *)

Unit == 1000 * DrawSteps

Max(a, b) == IF a >= b THEN a ELSE b

baseRevenue == 542310
baseUsers == 144320
baseConversions == 28470
baseGrowthPercent == 248

RandomDraws == 0 .. (DrawSteps - 1)

\* generateVariation with the division by 100 forgotten
generateVariationNoPercent(baseValue, variationPercent, k) ==
    Max(0, baseValue * (100 * DrawSteps + (2 * k - DrawSteps) * variationPercent * 100))

\* generateVariation without Math.max and without the division by 100
generateVariationUnclamped(baseValue, variationPercent, k) ==
    baseValue * (100 * DrawSteps + (2 * k - DrawSteps) * variationPercent * 100)

generateVariation(baseValue, variationPercent, k) ==
    Max(0, baseValue * (100 * DrawSteps + (2 * k - DrawSteps) * variationPercent))

\* n / d rounded to the nearest integer, halves upwards (n >= 0, d > 0)
RoundHalfUp(n, d) == (2 * n + d) \div (2 * d)

\* A formatted string is kept as its style and the number whose digits it
\* shows; a value is a count of 1/Unit.
\* Intl.NumberFormat currency USD, no fraction digits: "$54,231"
formatCurrency(value) == [style |-> "$", shown |-> RoundHalfUp(value, Unit)]

\* formatNumber(Math.round(value)): "14,432"
formatNumber(value) == [style |-> "#", shown |-> RoundHalfUp(value, Unit)]

\* value.toFixed(1) + "%": shown counts tenths, "24.8%"
formatPercentage(value) == [style |-> "%", shown |-> RoundHalfUp(10 * value, Unit)]

\* the trend taken from the sign with zero on the wrong side
TrendStrict(change) == IF change > 0 THEN "up" ELSE "down"

Trend(change) == IF change >= 0 THEN "up" ELSE "down"

\* the text "<sign><percentage> from last month"
ChangeText(change) ==
    [sign |-> IF change >= 0 THEN "+" ELSE "", percent |-> formatPercentage(change)]

MetricOf(title, value, raw, change) ==
    [title |-> title, value |-> value, change |-> ChangeText(change),
     trend |-> Trend(change), rawValue |-> raw, changePercent |-> change]

\* d is the sequence of the eight Math.random() draws, in call order
generateMetricsData(d) ==
    LET revenue == generateVariation(baseRevenue, 3, d[1])
        users == generateVariation(baseUsers, 4, d[2])
        conversions == generateVariation(baseConversions, 6, d[3])
        growthPercent == generateVariation(baseGrowthPercent, 8, d[4])
        revenueChange == generateVariation(125, 20, d[5])
        usersChange == generateVariation(82, 25, d[6])
        conversionsChange == generateVariation(153, 30, d[7])
        growthChange == generateVariation(41, 40, d[8])
    IN << MetricOf("Revenue", formatCurrency(revenue), revenue, revenueChange),
          MetricOf("Users", formatNumber(users), users, usersChange),
          MetricOf("Conversions", formatNumber(conversions), conversions,
                   conversionsChange),
          MetricOf("Growth %", formatPercentage(growthPercent), growthPercent,
                   growthChange) >>

DrawSpace == [1..8 -> RandomDraws]

\* the draws the polling model feeds to the generator: all eight equal
UniformDraws == { [i \in 1..8 |-> k] : k \in {0, DrawSteps - 1} }

----------------------------------------------------------------------------
(* Polling hook: useRealTimeMetrics *)

DefaultIntervalMs == 5000

Intervals == {DefaultIntervalMs, 1000}

NoTimer == 0
NoError == "undefined"
NoThrown == [isError |-> FALSE, message |-> "none"]

\* a fetch cycle at its await; stopSeen, stale, overtaken, thrown, result and
\* settled are history: what the cycle lived through and how it ended
NewFetch ==
    [stopSeen |-> FALSE, stale |-> FALSE, overtaken |-> FALSE,
     thrown |-> NoThrown, result |-> <<>>, settled |-> "pending"]

NoFetch == [NewFetch EXCEPT !.settled = "none"]

\* what the awaited promise can reject with: an Error or some other value
Thrown == { [isError |-> TRUE, message |-> "Network error"],
            [isError |-> FALSE, message |-> "n/a"] }

InitialMetricsData ==
    [timestamp |-> 0, metrics |-> <<>>, isLoading |-> TRUE, error |-> NoError]

\* the part of the state the hook's callbacks read and write
Hook ==
    [metricsData |-> metricsData, intervalRef |-> intervalRef,
     mountedRef |-> mountedRef, timers |-> timers, inflight |-> inflight]

Commit(h) ==
    /\ metricsData' = h.metricsData
    /\ intervalRef' = h.intervalRef
    /\ mountedRef' = h.mountedRef
    /\ timers' = h.timers
    /\ inflight' = h.inflight

RemoveAt(s, i) == [j \in 1 .. (Len(s) - 1) |-> IF j < i THEN s[j] ELSE s[j + 1]]

\* the handle setInterval returns: a positive integer naming no active timer
FreshTimerId(ts) ==
    CHOOSE i \in 1 .. (Cardinality(ts) + 1) :
        /\ \A t \in ts : t.id # i
        /\ \A j \in 1 .. (i - 1) : \E t \in ts : t.id = j

clearInterval(ts, id) == { t \in ts : t.id # id }

setInterval(ts, id, ms) == ts \cup { [id |-> id, ms |-> ms] }

\* the loading mark written without the spread of prev
BeginFetchNoSpread(prev) ==
    [timestamp |-> prev.timestamp, metrics |-> <<>>, isLoading |-> TRUE,
     error |-> NoError]

\* setMetricsData(prev => ({ ...prev, isLoading: true, error: undefined }))
BeginFetch(prev) == [prev EXCEPT !.isLoading = TRUE, !.error = NoError]

\* the success branch without its mountedRef check
ApplySuccessUnguarded(mounted, prev, metrics, t) ==
    [timestamp |-> t, metrics |-> metrics, isLoading |-> FALSE, error |-> NoError]

\* the success branch spreading prev and never clearing its error
ApplySuccessKeepsError(mounted, prev, metrics, t) ==
    IF mounted
    THEN [prev EXCEPT !.timestamp = t, !.metrics = metrics, !.isLoading = FALSE]
    ELSE prev

\* the success branch after the await
ApplySuccess(mounted, prev, metrics, t) ==
    IF mounted
    THEN [timestamp |-> t, metrics |-> metrics, isLoading |-> FALSE,
          error |-> NoError]
    ELSE prev

ErrorMessage(thrown) ==
    IF thrown.isError THEN thrown.message ELSE "Failed to fetch metrics"

\* a catch clause that handles Error instances only and rethrows the rest
CatchOutcomeRethrowsNonError(thrown) ==
    IF thrown.isError THEN "fulfilled" ELSE "rejected"

\* how the promise of fetchMetrics settles when the awaited promise rejects
\* with thrown: the catch clause takes every value and does not rethrow
CatchOutcome(thrown) == "fulfilled"

\* the catch branch without its mountedRef check
ApplyFailureUnguarded(mounted, prev, thrown) ==
    [prev EXCEPT !.isLoading = FALSE, !.error = ErrorMessage(thrown)]

\* the catch branch resetting the metrics it should keep
ApplyFailureDropsMetrics(mounted, prev, thrown) ==
    IF mounted
    THEN [prev EXCEPT !.metrics = <<>>, !.isLoading = FALSE,
                      !.error = ErrorMessage(thrown)]
    ELSE prev

\* the catch branch recording the error and leaving the loading mark set
ApplyFailureKeepsLoading(mounted, prev, thrown) ==
    IF mounted THEN [prev EXCEPT !.error = ErrorMessage(thrown)] ELSE prev

\* the catch branch
ApplyFailure(mounted, prev, thrown) ==
    IF mounted
    THEN [prev EXCEPT !.isLoading = FALSE, !.error = ErrorMessage(thrown)]
    ELSE prev

\* history only: what the in-flight fetch cycles have lived through
MarkStopSeen(fs, b) == [i \in 1 .. Len(fs) |-> [fs[i] EXCEPT !.stopSeen = b]]

\* history only: the result of a cycle begun later than the first n has landed
MarkOvertaken(fs, n) ==
    [i \in 1 .. Len(fs) |-> IF i <= n THEN [fs[i] EXCEPT !.overtaken = TRUE] ELSE fs[i]]

MarkStale(fs) == [i \in 1 .. Len(fs) |-> [fs[i] EXCEPT !.stale = TRUE]]

\* fetchMetrics refusing to start while a cycle is in flight
fetchMetricsSingleFlight(h) ==
    IF ~h.mountedRef \/ h.inflight # <<>>
    THEN h
    ELSE [h EXCEPT !.metricsData = BeginFetch(@),
                   !.inflight = Append(@, NewFetch)]

\* fetchMetrics giving up once the snapshot carries an error
fetchMetricsStopsOnError(h) ==
    IF ~h.mountedRef \/ h.metricsData.error # NoError
    THEN h
    ELSE [h EXCEPT !.metricsData = BeginFetch(@),
                   !.inflight = Append(@, NewFetch)]

\* fetchMetrics up to its await: the guard, the loading mark, the API call
fetchMetrics(h) ==
    IF ~h.mountedRef
    THEN h
    ELSE [h EXCEPT !.metricsData = BeginFetch(@),
                   !.inflight = Append(@, NewFetch)]

\* startPolling whose closure kept the default interval
startPollingStaleInterval(h, ms) ==
    LET h0 == [h EXCEPT !.timers = IF h.intervalRef # NoTimer
                                   THEN clearInterval(@, h.intervalRef)
                                   ELSE @,
                        !.inflight = MarkStopSeen(@, FALSE)]
        h1 == fetchMetrics(h0)
        id == FreshTimerId(h1.timers)
    IN [h1 EXCEPT !.timers = setInterval(@, id, DefaultIntervalMs),
                  !.intervalRef = id]

\* startPolling without the immediate fetch
startPollingNoFetch(h, ms) ==
    LET h0 == [h EXCEPT !.timers = IF h.intervalRef # NoTimer
                                   THEN clearInterval(@, h.intervalRef)
                                   ELSE @,
                        !.inflight = MarkStopSeen(@, FALSE)]
        id == FreshTimerId(h0.timers)
    IN [h0 EXCEPT !.timers = setInterval(@, id, ms), !.intervalRef = id]

\* startPolling without clearing the timer it replaces
startPollingNoClear(h, ms) ==
    LET h1 == fetchMetrics([h EXCEPT !.inflight = MarkStopSeen(@, FALSE)])
        id == FreshTimerId(h1.timers)
    IN [h1 EXCEPT !.timers = setInterval(@, id, ms), !.intervalRef = id]

startPolling(h, ms) ==
    LET h0 == [h EXCEPT !.timers = IF h.intervalRef # NoTimer
                                   THEN clearInterval(@, h.intervalRef)
                                   ELSE @,
                        !.inflight = MarkStopSeen(@, FALSE)]
        h1 == fetchMetrics(h0)
        id == FreshTimerId(h1.timers)
    IN [h1 EXCEPT !.timers = setInterval(@, id, ms), !.intervalRef = id]

\* stopPolling forgetting the handle without clearing the timer
stopPollingKeepsTimer(h) ==
    [h EXCEPT !.inflight = MarkStopSeen(@, TRUE), !.intervalRef = NoTimer]

stopPolling(h) ==
    LET h0 == [h EXCEPT !.inflight = MarkStopSeen(@, TRUE)]
    IN IF h.intervalRef # NoTimer
       THEN [h0 EXCEPT !.timers = clearInterval(@, h.intervalRef),
                       !.intervalRef = NoTimer]
       ELSE h0

\* refreshMetrics restarting the polling instead of fetching once
refreshMetricsRestarts(h) == startPolling(h, DefaultIntervalMs)

refreshMetrics(h) ==
    fetchMetrics([h EXCEPT !.inflight = MarkStopSeen(@, FALSE)])

\* the lifecycle effect without its startPolling() call
LifecycleSetupNoStart(h, ms) == [h EXCEPT !.mountedRef = TRUE]

\* body of the lifecycle effect
LifecycleSetup(h, ms) == startPolling([h EXCEPT !.mountedRef = TRUE], ms)

\* cleanup of the lifecycle effect
LifecycleCleanup(h) ==
    stopPolling([h EXCEPT !.mountedRef = FALSE, !.inflight = MarkStale(@)])

\* handleVisibilityChange with its branches exchanged
handleVisibilityChangeSwapped(h, isHidden, ms) ==
    IF isHidden THEN startPolling(h, ms) ELSE stopPolling(h)

\* handleVisibilityChange, called with document.hidden
handleVisibilityChange(h, isHidden, ms) ==
    IF isHidden THEN stopPolling(h) ELSE startPolling(h, ms)

Before == [error |-> metricsData.error, timer |-> intervalRef]

\* the bound leaves room for the fetch a call of fetchMetrics would issue
RoomToFetch(h) == h.mountedRef => Len(h.inflight) < MaxInFlight

----------------------------------------------------------------------------
(* Actions *)

\* first commit: both effects run
Mount ==
    /\ phase = "rendered"
    /\ phase' = "live"
    /\ Commit(LifecycleSetup(Hook, intervalMs))
    /\ listening' = TRUE
    /\ lastOp' = "mount"
    /\ lastFetch' = NoFetch
    /\ before' = Before
    /\ UNCHANGED <<intervalMs, hidden, now, genVars, uiVars>>

\* the consumer calls the returned startPolling
Start ==
    /\ phase # "rendered"
    /\ RoomToFetch(Hook)
    /\ Commit(startPolling(Hook, intervalMs))
    /\ lastOp' = "start"
    /\ lastFetch' = NoFetch
    /\ before' = Before
    /\ UNCHANGED <<phase, intervalMs, hidden, listening, now, genVars, uiVars>>

\* the consumer calls the returned stopPolling
Stop ==
    /\ phase # "rendered"
    /\ Commit(stopPolling(Hook))
    /\ lastOp' = "stop"
    /\ lastFetch' = NoFetch
    /\ before' = Before
    /\ UNCHANGED <<phase, intervalMs, hidden, listening, now, genVars, uiVars>>

\* the consumer calls the returned refreshMetrics
Refresh ==
    /\ phase # "rendered"
    /\ RoomToFetch(Hook)
    /\ Commit(refreshMetrics(Hook))
    /\ lastOp' = "refresh"
    /\ lastFetch' = NoFetch
    /\ before' = Before
    /\ UNCHANGED <<phase, intervalMs, hidden, listening, now, genVars, uiVars>>

\* an active interval timer fires its callback, fetchMetrics
TimerTick ==
    /\ \E t \in timers :
         /\ RoomToFetch(Hook)
         /\ Commit(fetchMetrics(Hook))
    /\ lastOp' = "tick"
    /\ lastFetch' = NoFetch
    /\ before' = Before
    /\ UNCHANGED <<phase, intervalMs, hidden, listening, now, genVars, uiVars>>

\* the page becomes hidden; the listener, if subscribed, runs
PageHidden ==
    /\ phase # "rendered"
    /\ ~hidden
    /\ hidden' = TRUE
    /\ IF listening
       THEN Commit(handleVisibilityChange(Hook, TRUE, intervalMs))
       ELSE Commit(Hook)
    /\ lastOp' = "hidden"
    /\ lastFetch' = NoFetch
    /\ before' = Before
    /\ UNCHANGED <<phase, intervalMs, listening, now, genVars, uiVars>>

\* the page becomes visible; the listener, if subscribed, runs
PageVisible ==
    /\ phase # "rendered"
    /\ hidden
    /\ listening => RoomToFetch(Hook)
    /\ hidden' = FALSE
    /\ IF listening
       THEN Commit(handleVisibilityChange(Hook, FALSE, intervalMs))
       ELSE Commit(Hook)
    /\ lastOp' = "visible"
    /\ lastFetch' = NoFetch
    /\ before' = Before
    /\ UNCHANGED <<phase, intervalMs, listening, now, genVars, uiVars>>

\* MockAPI.fetchMetrics resolves; the rest of fetchMetrics runs
FetchSucceeds ==
    /\ \E i \in 1 .. Len(inflight), d \in UniformDraws :
         /\ metricsData' = ApplySuccess(mountedRef, metricsData,
                                        generateMetricsData(d), now)
         /\ inflight' = IF mountedRef
                        THEN MarkOvertaken(RemoveAt(inflight, i), i - 1)
                        ELSE RemoveAt(inflight, i)
         /\ lastFetch' = [inflight[i] EXCEPT !.result = generateMetricsData(d),
                                              !.settled = "fulfilled"]
    /\ lastOp' = "success"
    /\ before' = Before
    /\ UNCHANGED <<phase, intervalMs, intervalRef, mountedRef, timers, hidden,
                   listening, now, genVars, uiVars>>

\* the awaited promise rejects; the catch branch runs
FetchFails ==
    /\ \E i \in 1 .. Len(inflight), e \in Thrown :
         /\ metricsData' = ApplyFailure(mountedRef, metricsData, e)
         /\ inflight' = RemoveAt(inflight, i)
         /\ lastFetch' = [inflight[i] EXCEPT !.thrown = e,
                                              !.settled = CatchOutcome(e)]
    /\ lastOp' = "failure"
    /\ before' = Before
    /\ UNCHANGED <<phase, intervalMs, intervalRef, mountedRef, timers, hidden,
                   listening, now, genVars, uiVars>>

\* the consumer re-renders with another intervalMs: startPolling changes
\* identity, so both effects clean up and run again
ChangeInterval ==
    /\ phase = "live"
    /\ Len(inflight) < MaxInFlight
    /\ \E ms \in Intervals \ {intervalMs} :
         /\ intervalMs' = ms
         /\ Commit(LifecycleSetup(LifecycleCleanup(Hook), ms))
    /\ lastOp' = "rerender"
    /\ lastFetch' = NoFetch
    /\ before' = Before
    /\ UNCHANGED <<phase, hidden, listening, now, genVars, uiVars>>

\* the consumer unmounts: both effects clean up
Unmount ==
    /\ phase = "live"
    /\ phase' = "unmounted"
    /\ Commit(LifecycleCleanup(Hook))
    /\ listening' = FALSE
    /\ lastOp' = "unmount"
    /\ lastFetch' = NoFetch
    /\ before' = Before
    /\ UNCHANGED <<intervalMs, hidden, now, genVars, uiVars>>

\* time passes
Elapse ==
    /\ now < MaxTime
    /\ now' = now + 1
    /\ lastOp' = "elapse"
    /\ lastFetch' = NoFetch
    /\ before' = Before
    /\ UNCHANGED <<phase, intervalMs, metricsData, intervalRef, mountedRef,
                   timers, inflight, hidden, listening, genVars, uiVars>>

\* one invocation of the generator on the drawn randoms
Generate ==
    /\ gpc = "ready"
    /\ gen' = generateMetricsData(draw)
    /\ gpc' = "done"
    /\ UNCHANGED <<draw, hookVars, uiVars>>

----------------------------------------------------------------------------
(* Dashboard: previousMetrics and the props of the overview cards *)

\* the draws behind the snapshots the dashboard is shown: one draw for the
\* values, one for the changes
DashDraws ==
    { [i \in 1..8 |-> IF i <= 4 THEN a ELSE b] : a, b \in RandomDraws }

DashMetrics == { generateMetricsData(d) : d \in DashDraws }

\* the effect on [realtimeMetrics]:
\* setPreviousMetrics(prev => prev.length > 0 ? prev : realtimeMetrics)
TrackPrevious(prev, realtime) ==
    IF Len(realtime) > 0
    THEN IF Len(prev) > 0 THEN prev ELSE realtime
    ELSE prev

\* the static cards shown while the hook has no metrics
StaticCards ==
    << [title |-> "Revenue", value |-> [style |-> "$", shown |-> 54231],
        previousValue |-> [style |-> "$", shown |-> 54231]],
       [title |-> "Users", value |-> [style |-> "#", shown |-> 14432],
        previousValue |-> [style |-> "#", shown |-> 14432]],
       [title |-> "Conversions", value |-> [style |-> "#", shown |-> 2847],
        previousValue |-> [style |-> "#", shown |-> 2847]],
       [title |-> "Growth %", value |-> [style |-> "%", shown |-> 248],
        previousValue |-> [style |-> "%", shown |-> 248]] >>

\* the cards of one render:
\* previousValue: previousMetrics[index]?.value || metric.value
DashboardCards(realtime, prev) ==
    IF Len(realtime) > 0
    THEN [i \in 1 .. Len(realtime) |->
            [title |-> realtime[i].title,
             value |-> realtime[i].value,
             previousValue |-> IF i <= Len(prev) THEN prev[i].value
                               ELSE realtime[i].value]]
    ELSE StaticCards

\* the cards on screen once the effects of the last render have run
Cards == DashboardCards(realtimeMetrics, previousMetrics)

\* a successful poll hands the dashboard a new metrics array: it renders and
\* the effect on [realtimeMetrics] runs
DashPoll ==
    /\ \E m \in DashMetrics :
         /\ realtimeMetrics' = m
         /\ previousMetrics' = TrackPrevious(previousMetrics, m)
    /\ precedingMetrics' = realtimeMetrics
    /\ UNCHANGED <<hookVars, genVars, cardVars, tableVars>>

DashInit ==
    /\ realtimeMetrics = <<>>
    /\ previousMetrics = <<>>
    /\ precedingMetrics = <<>>

----------------------------------------------------------------------------
(* OverviewCard: the value-change animation *)

CardValues == {"$54,231", "$55,102", "$53,870", "$54,640"}

NoValue == "undefined"

\* what the previousValue prop can be: a value, the empty string, or absent
CardPreviousValues == CardValues \cup {"", NoValue}

NoCardTimer == "none"

Truthy(s) == s # NoValue /\ s # ""

\* the card as its effect sees it
Card ==
    [value |-> cardValue, previousValue |-> cardPreviousValue,
     displayValue |-> displayValue, isAnimating |-> isAnimating,
     timer |-> cardTimer]

CommitCard(c) ==
    /\ displayValue' = c.displayValue
    /\ isAnimating' = c.isAnimating
    /\ cardTimer' = c.timer

\* body of the effect on [value, previousValue]
CardEffect(c) ==
    IF Truthy(c.previousValue) /\ c.previousValue # c.value
    THEN [c EXCEPT !.isAnimating = TRUE, !.timer = c.value]
    ELSE [c EXCEPT !.displayValue = c.value]

\* cleanup of the effect: clearTimeout(timer), when the last run set one
CardCleanup(c) == [c EXCEPT !.timer = NoCardTimer]

\* the callback of the 300 ms timeout
CardTimeout(c) ==
    [c EXCEPT !.displayValue = c.timer, !.isAnimating = FALSE,
              !.timer = NoCardTimer]

\* first commit of the card: the effect runs
CardMount ==
    /\ cardPhase = "rendered"
    /\ cardPhase' = "live"
    /\ CommitCard(CardEffect(Card))
    /\ UNCHANGED <<cardValue, cardPreviousValue, hookVars, genVars, dashVars,
                   tableVars>>

\* the parent renders the card with other props: cleanup, then the effect
CardRender ==
    /\ cardPhase = "live"
    /\ \E v \in CardValues, pv \in CardPreviousValues :
         /\ <<v, pv>> # <<cardValue, cardPreviousValue>>
         /\ cardValue' = v
         /\ cardPreviousValue' = pv
         /\ CommitCard(CardEffect([CardCleanup(Card) EXCEPT
                                      !.value = v, !.previousValue = pv]))
    /\ UNCHANGED <<cardPhase, hookVars, genVars, dashVars, tableVars>>

\* the 300 ms timeout fires
CardTimerFires ==
    /\ cardPhase = "live"
    /\ cardTimer # NoCardTimer
    /\ CommitCard(CardTimeout(Card))
    /\ UNCHANGED <<cardPhase, cardValue, cardPreviousValue, hookVars, genVars,
                   dashVars, tableVars>>

\* the card is removed: cleanup
CardUnmount ==
    /\ cardPhase = "live"
    /\ cardPhase' = "unmounted"
    /\ CommitCard(CardCleanup(Card))
    /\ UNCHANGED <<cardValue, cardPreviousValue, hookVars, genVars, dashVars,
                   tableVars>>

\* useState(false), useState(value)
CardIdle ==
    /\ cardPhase = "rendered"
    /\ cardValue = "$54,231"
    /\ cardPreviousValue = NoValue
    /\ displayValue = "$54,231"
    /\ isAnimating = FALSE
    /\ cardTimer = NoCardTimer

CardInit ==
    /\ cardPhase = "rendered"
    /\ cardValue \in CardValues
    /\ cardPreviousValue \in CardPreviousValues
    /\ displayValue = cardValue
    /\ isAnimating = FALSE
    /\ cardTimer = NoCardTimer

----------------------------------------------------------------------------
(* Export utilities and DataTable *)

\* Time is counted in hours of the local clock; a day is 24 of them.  A row
\* carries its date as a date-only string, kept here as its day number.
TzOffsets == {0 - 5, 0, 5}

\* the days and the times of day the date picker can hand over
PickTimes == { 24 * d + h : d \in 1 .. MaxDay, h \in {0, 12} }

NoDate == 0 - 1

NoRange == [defined |-> FALSE, from |-> NoDate, to |-> NoDate]

DateRanges ==
    {NoRange} \cup
    { [defined |-> TRUE, from |-> f, to |-> u] :
        f \in PickTimes \cup {NoDate}, u \in PickTimes \cup {NoDate} }

NoKey == "undefined"

\* the rows of the table, not in date order
Campaigns ==
    << [id |-> "1", startDate |-> 2], [id |-> "2", startDate |-> 1],
       [id |-> "3", startDate |-> 3], [id |-> "4", startDate |-> 2] >>

\* new Date("2025-06-01"): midnight UTC of that day, read on the local clock
ParseDate(day, tz) == 24 * day + tz

\* setHours(0, 0, 0, 0)
StartOfDay(t) == 24 * (t \div 24)

\* setHours(23, 59, 59, 999): the last hour of the day on this grid
EndOfDay(t) == 24 * (t \div 24) + 23

\* date.toLocaleDateString(): the local calendar day
LocalDateString(t) == [style |-> "date", day |-> t \div 24]

\* the filter taking `to` as picked, not extended to the end of its day
filteredDataToAsPicked(data, enabled, key, range, tz) ==
    IF ~enabled \/ key = NoKey \/ ~range.defined \/ range.from = NoDate
    THEN data
    ELSE LET toDate == IF range.to # NoDate THEN range.to ELSE range.from
             Keep(item) ==
                 /\ ParseDate(item[key], tz) >= StartOfDay(range.from)
                 /\ ParseDate(item[key], tz) <= toDate
         IN SelectSeq(data, Keep)

\* the filteredData memo of DataTable
filteredData(data, enabled, key, range, tz) ==
    IF ~enabled \/ key = NoKey \/ ~range.defined \/ range.from = NoDate
    THEN data
    ELSE LET toDate == IF range.to # NoDate THEN range.to ELSE range.from
             Keep(item) ==
                 /\ ParseDate(item[key], tz) >= StartOfDay(range.from)
                 /\ ParseDate(item[key], tz) <= EndOfDay(toDate)
         IN SelectSeq(data, Keep)

Err(message) == [isError |-> TRUE, message |-> message]

\* the startDate formatter of campaignFormatters
FormatRow(row, tz) ==
    [id |-> row.id, startDate |-> LocalDateString(ParseDate(row.startDate, tz))]

\* formatDataForExport: threw is what a formatter throws on a row, if anything
formatDataForExport(data, threw, tz) ==
    IF Len(data) > 0 /\ threw # NoThrown
    THEN [thrown |-> threw, rows |-> <<>>]
    ELSE [thrown |-> NoThrown,
          rows |-> [i \in 1 .. Len(data) |-> FormatRow(data[i], tz)]]

NoDataError == Err("No data to export")

PopupError == Err("Unable to open print window. Please check popup blockers.")

\* exportToCSV: the guard, the blob and the link, the download when the
\* browser knows link.download
exportToCSV(data, downloadSupported) ==
    IF Len(data) = 0
    THEN [thrown |-> NoDataError, log |-> <<>>, windows |-> 0]
    ELSE [thrown |-> NoThrown,
          log |-> <<"new Blob", "createElement">> \o
                  (IF downloadSupported
                   THEN <<"createObjectURL", "appendChild", "click",
                          "removeChild", "revokeObjectURL">>
                   ELSE <<>>),
          windows |-> 0]

\* exportToPDF opening the print window before it looks at the data
exportToPDFOpensFirst(data, popupBlocked) ==
    IF popupBlocked
    THEN [thrown |-> PopupError, log |-> <<"window.open">>, windows |-> 0]
    ELSE IF Len(data) = 0
         THEN [thrown |-> NoDataError, log |-> <<"window.open">>, windows |-> 1]
         ELSE [thrown |-> NoThrown,
               log |-> <<"window.open", "document.write", "document.close">>,
               windows |-> 1]

\* exportToPDF up to the registration of onload; popupBlocked: window.open
\* returned null
exportToPDF(data, popupBlocked) ==
    IF Len(data) = 0
    THEN [thrown |-> NoDataError, log |-> <<>>, windows |-> 0]
    ELSE IF popupBlocked
         THEN [thrown |-> PopupError, log |-> <<"window.open">>, windows |-> 0]
         ELSE [thrown |-> NoThrown,
               log |-> <<"window.open", "document.write", "document.close">>,
               windows |-> 1]

CsvSuccessToast ==
    [title |-> "Export Successful", description |-> "Data exported to <filename>",
     variant |-> "default"]

PdfSuccessToast ==
    [title |-> "Export Initiated",
     description |-> "PDF export has been initiated. Please check your browser's print dialog.",
     variant |-> "default"]

\* the toast of the catch clause
FailureToast(thrown, fallback) ==
    [title |-> "Export Failed",
     description |-> IF thrown.isError THEN thrown.message ELSE fallback,
     variant |-> "destructive"]

NoTrace == [format |-> NoThrown, export |-> NoThrown, called |-> FALSE]

\* what a step that exports nothing leaves in the history
NoExport ==
    [toasts |-> <<>>, log |-> <<>>, arg |-> <<>>, thrownOut |-> NoThrown,
     trace |-> NoTrace, windows |-> 0]

\* try { format; export; toast } catch { toast }, for either handler
HandleExport(f, e, success, fallback) ==
    IF f.thrown # NoThrown
    THEN [NoExport EXCEPT !.toasts = <<FailureToast(f.thrown, fallback)>>,
                          !.trace = [NoTrace EXCEPT !.format = f.thrown]]
    ELSE [toasts |-> IF e.thrown # NoThrown
                     THEN <<FailureToast(e.thrown, fallback)>>
                     ELSE <<success>>,
          log |-> e.log, arg |-> f.rows, thrownOut |-> NoThrown,
          trace |-> [format |-> NoThrown, export |-> e.thrown, called |-> TRUE],
          windows |-> e.windows]

handleExportCSV(rows, threw, downloadSupported, tz) ==
    LET f == formatDataForExport(rows, threw, tz)
    IN HandleExport(f, exportToCSV(f.rows, downloadSupported), CsvSuccessToast,
                    "Failed to export data")

\* handleExportPDF without its catch clause
handleExportPDFNoCatch(rows, threw, popupBlocked, tz) ==
    LET f == formatDataForExport(rows, threw, tz)
        e == exportToPDF(f.rows, popupBlocked)
        h == HandleExport(f, e, PdfSuccessToast, "Failed to export PDF")
    IN IF f.thrown # NoThrown \/ e.thrown # NoThrown
       THEN [h EXCEPT !.toasts = <<>>,
                      !.thrownOut = IF f.thrown # NoThrown THEN f.thrown
                                    ELSE e.thrown]
       ELSE h

handleExportPDF(rows, threw, popupBlocked, tz) ==
    LET f == formatDataForExport(rows, threw, tz)
    IN HandleExport(f, exportToPDF(f.rows, popupBlocked), PdfSuccessToast,
                    "Failed to export PDF")

\* disabled={isLoading || filteredData.length === 0}
ExportDisabled(loading, rows) == loading \/ Len(rows) = 0

\* what a formatter can do on a row: return, throw an Error, throw another value
FormatThrows ==
    { NoThrown, Err("Cannot read properties of undefined"),
      [isError |-> FALSE, message |-> "n/a"] }

\* the rows the table shows and exports
FilteredRows ==
    filteredData(tableData, enableDateFilter, dateFilterKey, dateRange, tzOffset)

CommitTable(res, op) ==
    /\ toasts' = res.toasts
    /\ domLog' = res.log
    /\ exportArg' = res.arg
    /\ thrownOut' = res.thrownOut
    /\ handlerTrace' = res.trace
    /\ printWindows' = printWindows + res.windows
    /\ lastTableOp' = op

\* the parent renders the table with other data / isLoading props
TableRender ==
    /\ \E d \in {<<>>, Campaigns}, l \in BOOLEAN :
         /\ <<d, l>> # <<tableData, tableLoading>>
         /\ tableData' = d
         /\ tableLoading' = l
    /\ CommitTable(NoExport, "render")
    /\ UNCHANGED <<tzOffset, enableDateFilter, dateFilterKey, dateRange,
                   hookVars, genVars, dashVars, cardVars>>

\* the date picker (rendered when enableDateFilter) calls setDateRange
SelectDateRange ==
    /\ enableDateFilter
    /\ \E r \in DateRanges \ {dateRange} : dateRange' = r
    /\ CommitTable(NoExport, "range")
    /\ UNCHANGED <<tzOffset, tableData, tableLoading, enableDateFilter,
                   dateFilterKey, hookVars, genVars, dashVars, cardVars>>

\* a click on the enabled CSV button
ClickExportCSV ==
    /\ ~ExportDisabled(tableLoading, FilteredRows)
    /\ \E threw \in FormatThrows, downloadSupported \in BOOLEAN :
         CommitTable(handleExportCSV(FilteredRows, threw, downloadSupported,
                                     tzOffset), "csv")
    /\ UNCHANGED <<tzOffset, tableData, tableLoading, enableDateFilter,
                   dateFilterKey, dateRange, hookVars, genVars, dashVars,
                   cardVars>>

\* a click on the enabled PDF button
ClickExportPDF ==
    /\ ~ExportDisabled(tableLoading, FilteredRows)
    /\ printWindows < MaxWindows
    /\ \E threw \in FormatThrows, popupBlocked \in BOOLEAN :
         CommitTable(handleExportPDF(FilteredRows, threw, popupBlocked,
                                     tzOffset), "pdf")
    /\ UNCHANGED <<tzOffset, tableData, tableLoading, enableDateFilter,
                   dateFilterKey, dateRange, hookVars, genVars, dashVars,
                   cardVars>>

\* the data another caller hands to the export functions
CallData == { <<>>, formatDataForExport(Campaigns, NoThrown, tzOffset).rows }

\* a direct call of exportToCSV; what it throws reaches the caller
CallExportToCSV ==
    /\ \E data \in CallData, downloadSupported \in BOOLEAN :
         LET e == exportToCSV(data, downloadSupported)
         IN CommitTable([NoExport EXCEPT !.log = e.log, !.arg = data,
                                         !.thrownOut = e.thrown,
                                         !.trace.export = e.thrown,
                                         !.trace.called = TRUE], "callCsv")
    /\ UNCHANGED <<tzOffset, tableData, tableLoading, enableDateFilter,
                   dateFilterKey, dateRange, hookVars, genVars, dashVars,
                   cardVars>>

\* a direct call of exportToPDF; popupBlocked is the browser's answer
CallExportToPDF ==
    /\ printWindows < MaxWindows
    /\ \E data \in CallData, popupBlocked \in BOOLEAN :
         LET e == exportToPDF(data, popupBlocked)
         IN CommitTable([NoExport EXCEPT !.log = e.log, !.arg = data,
                                         !.thrownOut = e.thrown,
                                         !.trace.export = e.thrown,
                                         !.trace.called = TRUE,
                                         !.windows = e.windows],
                        IF popupBlocked THEN "callPdfBlocked" ELSE "callPdf")
    /\ UNCHANGED <<tzOffset, tableData, tableLoading, enableDateFilter,
                   dateFilterKey, dateRange, hookVars, genVars, dashVars,
                   cardVars>>

\* a print window loads: after 500 ms it prints and closes
PrintWindowLoads ==
    /\ printWindows > 0
    /\ CommitTable([NoExport EXCEPT !.log = <<"print", "close">>,
                                    !.windows = 0 - 1], "print")
    /\ UNCHANGED <<tzOffset, tableData, tableLoading, enableDateFilter,
                   dateFilterKey, dateRange, hookVars, genVars, dashVars,
                   cardVars>>

TableHistoryInit ==
    /\ dateRange = NoRange
    /\ toasts = <<>>
    /\ domLog = <<>>
    /\ exportArg = <<>>
    /\ thrownOut = NoThrown
    /\ handlerTrace = NoTrace
    /\ printWindows = 0
    /\ lastTableOp = "init"

\* the table as the dashboard first renders it
TableIdle ==
    /\ tzOffset = 0
    /\ tableData = <<>>
    /\ tableLoading = TRUE
    /\ enableDateFilter = TRUE
    /\ dateFilterKey = "startDate"
    /\ TableHistoryInit

\* the table under any props and any time zone
TableInit ==
    /\ tzOffset \in TzOffsets
    /\ tableData = <<>>
    /\ tableLoading = TRUE
    /\ enableDateFilter \in BOOLEAN
    /\ dateFilterKey \in {"startDate", NoKey}
    /\ TableHistoryInit

HookInit ==
    /\ phase = "rendered"
    /\ intervalMs = DefaultIntervalMs
    /\ metricsData = InitialMetricsData
    /\ intervalRef = NoTimer
    /\ mountedRef = TRUE
    /\ timers = {}
    /\ inflight = <<>>
    /\ hidden \in BOOLEAN
    /\ listening = FALSE
    /\ now = 0
    /\ lastOp = "init"
    /\ lastFetch = NoFetch
    /\ before = [error |-> NoError, timer |-> NoTimer]

\* the generator harness at rest
GenIdle ==
    /\ draw = [i \in 1..8 |-> 0]
    /\ gen = <<>>
    /\ gpc = "done"

Init ==
    /\ HookInit
    /\ GenIdle
    /\ DashInit
    /\ CardIdle
    /\ TableIdle

Next ==
    \/ Mount
    \/ Start
    \/ Stop
    \/ Refresh
    \/ TimerTick
    \/ PageHidden
    \/ PageVisible
    \/ FetchSucceeds
    \/ FetchFails
    \/ ChangeInterval
    \/ Unmount
    \/ Elapse

Spec == Init /\ [][Next]_vars

\* the generator alone, over every combination of draws
GenInit ==
    /\ HookInit
    /\ hidden = FALSE
    /\ draw \in DrawSpace
    /\ gen = <<>>
    /\ gpc = "ready"
    /\ DashInit
    /\ CardIdle
    /\ TableIdle

GenNext == Generate

SpecGen == GenInit /\ [][GenNext]_vars

\* the components at rest around the one under study
HookIdle == HookInit /\ hidden = FALSE

\* the dashboard under a stream of successful polls
DashNext == DashPoll

InitDash == HookIdle /\ GenIdle /\ DashInit /\ CardIdle /\ TableIdle

SpecDash == InitDash /\ [][DashNext]_vars

\* one overview card under any props
CardNext ==
    \/ CardMount
    \/ CardRender
    \/ CardTimerFires
    \/ CardUnmount

InitCard == HookIdle /\ GenIdle /\ DashInit /\ CardInit /\ TableIdle

SpecCard == InitCard /\ [][CardNext]_vars

\* the data table and the export functions
TableNext ==
    \/ TableRender
    \/ SelectDateRange
    \/ ClickExportCSV
    \/ ClickExportPDF
    \/ CallExportToCSV
    \/ CallExportToPDF
    \/ PrintWindowLoads

InitTable == HookIdle /\ GenIdle /\ DashInit /\ CardIdle /\ TableInit

SpecTable == InitTable /\ [][TableNext]_vars

\* the hook with its scheduling: the awaited MockAPI promise settles once its
\* delay timer (100-300 ms) has fired, so a fetch in flight does not wait for
\* ever
SpecFair == Init /\ [][Next]_vars /\ WF_vars(FetchSucceeds \/ FetchFails)

----------------------------------------------------------------------------
(* Steps, as the history variables show them *)

\* the step just taken was operation op (a repeat of op that changes nothing
\* is not told apart from no step)
Step(op) ==
    /\ lastOp' = op
    /\ \/ lastOp # op
       \/ <<metricsData, intervalRef, mountedRef, timers, inflight, phase, hidden>>'
            # <<metricsData, intervalRef, mountedRef, timers, inflight, phase, hidden>>

\* a fetch cycle resumed after its await (lastFetch' is that cycle)
ResolveStep == Len(inflight') = Len(inflight) - 1

\* a fetch cycle began and reached its await
FetchBegins == Len(inflight') = Len(inflight) + 1

GeneratedMetrics == { generateMetricsData(d) : d \in UniformDraws }

----------------------------------------------------------------------------
(* Claims *)

C2_TeardownMakesInert ==
    [][ /\ mountedRef /\ ~mountedRef' =>
             /\ timers' = {}
             /\ intervalRef' = NoTimer
             /\ metricsData' = metricsData
        /\ ~mountedRef => metricsData' = metricsData /\ ~mountedRef' ]_vars

C2_Witness ==
    /\ phase = "unmounted"
    /\ ~mountedRef
    /\ lastOp = "success"
    /\ lastFetch.stale
    /\ metricsData.isLoading
    /\ timers = {}

\* C3: a fetch that began before the lifecycle was torn down and set up
\* again never writes the snapshot when it resolves.
C3_SupersededFetchNotApplied ==
    [][ResolveStep /\ lastFetch'.stale => metricsData' = metricsData]_vars

\* C4 (as stated): among the possible draws there is an invocation of the
\* generator in which some metric has changePercent < 0.
C4_DownReachable ==
    gpc = "done" =>
        \E d \in DrawSpace : \E i \in 1..4 : generateMetricsData(d)[i].changePercent < 0

\* C4 (amended): the change percentage comes from the same clamped
\* generateVariation; for the fixed change baselines it is strictly positive
\* in every invocation, so every trend is 'up' and 'down' is never produced.
C4_ChangeAlwaysPositive ==
    gpc = "done" =>
        \A i \in 1..4 : gen[i].changePercent > 0 /\ gen[i].trend = "up"

C4_Witness ==
    /\ gpc = "done"
    /\ \A i \in 5..8 : draw[i] = 0
    /\ gen[1].changePercent = 10 * Unit
    /\ gen[1].trend = "up"

\* C5 (as stated): when a fetch begins, isLoading becomes true and metrics
\* and error keep their previous values.
C5_BeginPreservesError ==
    [][FetchBegins =>
         /\ metricsData'.isLoading
         /\ metricsData'.metrics = metricsData.metrics
         /\ metricsData'.error = metricsData.error]_vars

\* C5 (amended): when a fetch begins, isLoading becomes true, metrics and
\* timestamp keep their previous values and error is cleared to undefined,
\* also when the previous snapshot carried an error.
C5_BeginKeepsMetricsClearsError ==
    [][FetchBegins =>
         /\ metricsData'.isLoading
         /\ metricsData'.metrics = metricsData.metrics
         /\ metricsData'.timestamp = metricsData.timestamp
         /\ metricsData'.error = NoError]_vars

C5_Witness ==
    /\ lastOp = "refresh"
    /\ mountedRef
    /\ before.error # NoError
    /\ metricsData.isLoading
    /\ metricsData.error = NoError
    /\ metricsData.metrics \in GeneratedMetrics

\* C6: a fetch that fails while the hook is mounted leaves metrics and
\* timestamp as they were, sets isLoading to false and error to the message
\* of the failure (the fallback text when the rejection is not an Error).
C6_FailureKeepsMetrics ==
    [][ResolveStep /\ lastOp' = "failure" /\ mountedRef =>
         /\ metricsData'.metrics = metricsData.metrics
         /\ metricsData'.timestamp = metricsData.timestamp
         /\ ~metricsData'.isLoading
         /\ metricsData'.error = IF lastFetch'.thrown.isError
                                 THEN lastFetch'.thrown.message
                                 ELSE "Failed to fetch metrics"]_vars

C6_Witness ==
    /\ lastOp = "failure"
    /\ mountedRef
    /\ metricsData.metrics \in GeneratedMetrics
    /\ metricsData.error = "Network error"
    /\ ~metricsData.isLoading

\* C7: a failing fetch leaves the timer as it is (same handle, same
\* interval: no backoff), and a tick of the timer on a mounted hook issues a
\* new fetch whatever error the snapshot carries.
C7_FailureKeepsPolling ==
    [][ /\ ResolveStep /\ lastOp' = "failure" =>
             /\ timers' = timers
             /\ intervalRef' = intervalRef
             /\ intervalRef # NoTimer =>
                  [id |-> intervalRef, ms |-> intervalMs] \in timers'
        /\ Step("tick") /\ mountedRef =>
             /\ FetchBegins
             /\ timers' = timers ]_vars

C7_Witness ==
    /\ lastOp = "tick"
    /\ before.error # NoError
    /\ intervalRef # NoTimer
    /\ [id |-> intervalRef, ms |-> intervalMs] \in timers
    /\ mountedRef
    /\ inflight # <<>>
    /\ metricsData.isLoading

\* a call of startPolling: by the consumer, the lifecycle effect or the
\* visibility listener
StartCalled ==
    \/ Step("start")
    \/ Step("mount")
    \/ Step("rerender")
    \/ Step("visible") /\ listening

\* C8: every call to start() on a mounted hook issues exactly one fetch in
\* the same step, before any tick, and leaves exactly the timer it arms, at
\* the configured interval.
C8_StartFetchesOnceAndArms ==
    [][StartCalled /\ mountedRef' =>
         /\ FetchBegins
         /\ intervalRef' # NoTimer
         /\ timers' = { [id |-> intervalRef', ms |-> intervalMs'] }]_vars

C8_Witness ==
    /\ lastOp = "start"
    /\ mountedRef
    /\ inflight # <<>>
    /\ metricsData.isLoading
    /\ timers = { [id |-> intervalRef, ms |-> intervalMs] }

\* C9: stop() leaves no timer, and while no timer is recorded (from stop()
\* until the next start()) no step issues a timer-driven fetch.
C9_NoTickAfterStop ==
    [][ /\ Step("stop") => intervalRef' = NoTimer /\ timers' = {}
        /\ intervalRef = NoTimer =>
             ~(FetchBegins /\ lastOp' = "tick") ]_vars

C9_Witness ==
    /\ lastOp = "stop"
    /\ mountedRef
    /\ before.timer # NoTimer
    /\ intervalRef = NoTimer
    /\ timers = {}

\* C10: at most one interval timer is active, and it is the one
\* intervalRef records; none is active when intervalRef is null.
C10_AtMostOneTimer ==
    /\ Cardinality(timers) <= 1
    /\ \A t \in timers : t.id = intervalRef
    /\ intervalRef # NoTimer => timers # {}

C10_Witness ==
    /\ lastOp = "start"
    /\ before.timer # NoTimer
    /\ Cardinality(timers) = 1
    /\ \A t \in timers : t.id = intervalRef

\* C11 (as stated): at most one fetch is in flight at any time.
C11_AtMostOneInFlight == Len(inflight) <= 1

\* C11 (amended): fetchMetrics has no in-flight guard: every start(),
\* refresh(), page-visible signal and timer tick on a mounted hook begins a
\* new fetch, also while earlier fetches are still in flight.
C11_FetchesOverlap ==
    [][(Step("refresh") \/ Step("tick") \/ StartCalled) /\ mountedRef' =>
         FetchBegins /\ metricsData'.isLoading]_vars

C11_Witness ==
    /\ lastOp = "refresh"
    /\ mountedRef
    /\ Len(inflight) = 2
    /\ metricsData.isLoading

\* C12: the result of a fetch that was overtaken (a fetch begun after it has
\* already landed) does not overwrite the snapshot when it arrives.
C12_OvertakenResultNotApplied ==
    [][ResolveStep /\ lastFetch'.overtaken =>
         /\ metricsData'.metrics = metricsData.metrics
         /\ metricsData'.timestamp = metricsData.timestamp]_vars

\* C13 (as stated): refresh() issues exactly one fetch and leaves the timer
\* as it is, in every state, also after teardown.
C13_RefreshAlwaysFetches ==
    [][Step("refresh") =>
         /\ FetchBegins
         /\ timers' = timers
         /\ intervalRef' = intervalRef]_vars

\* C13 (amended): refresh() leaves the timer as it is in every state; it
\* issues exactly one fetch while the hook is mounted (polling or stopped)
\* and none, changing nothing, after teardown.
C13_RefreshFetchesWhileMounted ==
    [][Step("refresh") =>
         /\ timers' = timers
         /\ intervalRef' = intervalRef
         /\ mountedRef' = mountedRef
         /\ IF mountedRef
            THEN FetchBegins /\ metricsData'.isLoading
            ELSE Len(inflight') = Len(inflight) /\ metricsData' = metricsData]_vars

C13_Witness ==
    /\ lastOp = "refresh"
    /\ phase = "unmounted"
    /\ ~mountedRef
    /\ inflight = <<>>
    /\ timers = {}

\* C14: while the listener is subscribed a page-hidden signal does what
\* stop() does (timer cancelled, no fetch) and a page-visible signal what
\* start() does (one fetch, timer armed); once the listener is removed at
\* teardown the signals change nothing in the hook.
C14_VisibilityIsStopStart ==
    [][ /\ Step("hidden") =>
             /\ Hook' = IF listening THEN stopPolling(Hook) ELSE Hook
             /\ listening => timers' = {} /\ Len(inflight') = Len(inflight)
        /\ Step("visible") =>
             /\ Hook' = IF listening THEN startPolling(Hook, intervalMs) ELSE Hook
             /\ listening /\ mountedRef => FetchBegins /\ timers' # {}
        /\ phase' = "unmounted" => ~listening' ]_vars

C14_Witness ==
    /\ lastOp = "visible"
    /\ listening
    /\ before.timer = NoTimer
    /\ intervalRef # NoTimer
    /\ inflight # <<>>

\* C15: on a live hook no step other than the consumer's own start() leads
\* to a state in which the page is hidden and a timer is armed (so a hidden
\* page has an armed timer only through the consumer's start()).
C15_PausedWhileHidden ==
    [][ /\ hidden'
        /\ listening'
        /\ ~Step("start")
        /\ ~hidden \/ timers = {}
        => timers' = {} ]_vars

\* C16: the hook starts with isLoading true, no metrics and no error, and
\* its first commit, with no call from outside, issues the first fetch at once
\* and arms the timer at the configured interval.
C16_CreationStartsPolling ==
    [][Step("mount") =>
         /\ metricsData.isLoading /\ metricsData.metrics = <<>>
         /\ metricsData.error = NoError /\ inflight = <<>> /\ timers = {}
         /\ Len(inflight') = 1
         /\ metricsData'.isLoading /\ metricsData'.metrics = <<>>
         /\ metricsData'.error = NoError
         /\ intervalRef' # NoTimer
         /\ timers' = { [id |-> intervalRef', ms |-> intervalMs'] }
         /\ mountedRef' /\ phase' = "live"]_vars

C16_Witness ==
    /\ lastOp = "mount"
    /\ phase = "live"
    /\ Len(inflight) = 1
    /\ metricsData.isLoading
    /\ metricsData.metrics = <<>>
    /\ timers = { [id |-> intervalRef, ms |-> DefaultIntervalMs] }

\* C17: a successful fetch landing on a mounted hook replaces the snapshot
\* by exactly: the current time, the fetched metrics, isLoading false, no
\* error; nothing of the previous snapshot is kept.
C17_SuccessReplacesSnapshot ==
    [][ResolveStep /\ lastOp' = "success" /\ mountedRef =>
         metricsData' = [timestamp |-> now, metrics |-> lastFetch'.result,
                         isLoading |-> FALSE, error |-> NoError]]_vars

C17_Witness ==
    /\ lastOp = "success"
    /\ mountedRef
    /\ before.error # NoError
    /\ metricsData.error = NoError
    /\ metricsData.metrics = lastFetch.result
    /\ lastFetch.result \in GeneratedMetrics
    /\ metricsData.timestamp > 0

\* C18: whatever the awaited promise rejects with, the promise of
\* fetchMetrics is fulfilled, never rejected; on a mounted hook the failure
\* shows as the error field of the snapshot.
C18_ErrorsAbsorbed ==
    [][ResolveStep =>
         /\ lastFetch'.settled = "fulfilled"
         /\ lastOp' = "failure" /\ mountedRef => metricsData'.error # NoError]_vars

C18_Witness ==
    /\ lastOp = "failure"
    /\ mountedRef
    /\ ~lastFetch.thrown.isError
    /\ lastFetch.settled = "fulfilled"
    /\ metricsData.error = "Failed to fetch metrics"

\* C19 (as stated): a change of the interval by itself leaves the running
\* timer alone and issues no fetch.
C19_IntervalChangeIsLazy ==
    [][intervalMs' # intervalMs =>
         /\ timers' = timers
         /\ intervalRef' = intervalRef
         /\ inflight' = inflight]_vars

\* C19 (amended): a change of the interval re-runs the lifecycle effect at
\* once: the running timer is cancelled, one fetch is issued and a timer is
\* armed at the new interval.
C19_IntervalChangeRestarts ==
    [][intervalMs' # intervalMs =>
         /\ FetchBegins
         /\ mountedRef'
         /\ intervalRef' # NoTimer
         /\ timers' = { [id |-> intervalRef', ms |-> intervalMs'] }]_vars

C19_Witness ==
    /\ lastOp = "rerender"
    /\ intervalMs = 1000
    /\ timers = { [id |-> intervalRef, ms |-> 1000] }
    /\ inflight # <<>>
    /\ metricsData.isLoading

\* C20: in every invocation, for every draw, each of the four metrics has
\* rawValue >= 0.
C20_RawValueNonNegative ==
    gpc = "done" => \A i \in 1..4 : gen[i].rawValue >= 0

C20_Witness ==
    /\ gpc = "done"
    /\ \A i \in 1..4 : draw[i] = 0
    /\ gen[4].rawValue = baseGrowthPercent * 92 * DrawSteps
    /\ gen[4].rawValue > 0

\* C21: in every invocation each metric's trend is 'up' exactly when its
\* changePercent is >= 0 and 'down' otherwise, never 'neutral'; the rule
\* itself puts zero on the 'up' side and every negative change on 'down'.
C21_TrendFollowsSign ==
    gpc = "done" =>
        /\ \A i \in 1..4 :
             /\ gen[i].trend \in {"up", "down"}
             /\ gen[i].trend = "up" <=> gen[i].changePercent >= 0
             /\ gen[i].trend = "down" <=> gen[i].changePercent < 0
        /\ \A c \in {0 - Unit, 0 - 1, 0, 1, Unit} :
             Trend(c) = IF c < 0 THEN "down" ELSE "up"

C21_Witness ==
    /\ gpc = "done"
    /\ draw[6] = DrawSteps - 1
    /\ gen[2].changePercent = 82 * (100 * DrawSteps + (DrawSteps - 2) * 25)
    /\ gen[2].trend = "up"
    /\ gen[2].change.sign = "+"

\* the band of a metric: baseline * (1 -+ v/100), as counts of 1/Unit
BandLow(base, v) == base * (100 - v) * DrawSteps
BandHigh(base, v) == base * (100 + v) * DrawSteps

InBand(raw, base, v) == BandLow(base, v) <= raw /\ raw <= BandHigh(base, v)

\* C22: in every invocation each rawValue lies in the band around its fixed
\* baseline: 3% for Revenue (inside [52603.07, 55857.93]), 4% for Users, 6%
\* for Conversions, 8% for Growth %; the result depends on the draws of this
\* invocation only.
C22_RawValueInBand ==
    gpc = "done" =>
        /\ InBand(gen[1].rawValue, baseRevenue, 3)
        /\ InBand(gen[2].rawValue, baseUsers, 4)
        /\ InBand(gen[3].rawValue, baseConversions, 6)
        /\ InBand(gen[4].rawValue, baseGrowthPercent, 8)
        /\ 5260307 * (Unit \div 100) <= gen[1].rawValue
        /\ gen[1].rawValue <= 5585793 * (Unit \div 100)
        /\ gen = generateMetricsData(draw)

C22_Witness ==
    /\ gpc = "done"
    /\ draw[1] = 0
    /\ draw[3] = DrawSteps - 1
    /\ gen[1].rawValue = BandLow(baseRevenue, 3)
    /\ gen[3].rawValue > baseConversions * 100 * DrawSteps
    /\ gen[3].rawValue < BandHigh(baseConversions, 6)

\* C23: while the hook is mounted, isLoading is true in every state in
\* which a fetch is in flight (isLoading is false only when none is).
C23_LoadingWhileInFlight ==
    mountedRef /\ inflight # <<>> => metricsData.isLoading

\* C24: on a live hook isLoading is never stuck true: with no fetch in
\* flight isLoading is false, a loading hook leaves the loading state (or is
\* torn down), and a fetch in flight is followed by a fetch resuming, for
\* every mix of successes and failures and every order of resolution.
C24_LoadingSettles ==
    /\ [](phase = "live" /\ inflight = <<>> => ~metricsData.isLoading)
    /\ (phase = "live" /\ metricsData.isLoading)
         ~> (phase # "live" \/ ~metricsData.isLoading)
    /\ (inflight # <<>> /\ lastFetch.settled # "fulfilled")
         ~> (lastFetch.settled = "fulfilled")

C24_Witness ==
    /\ phase = "live"
    /\ lastOp = "failure"
    /\ lastFetch.overtaken
    /\ inflight = <<>>
    /\ ~metricsData.isLoading
    /\ metricsData.metrics \in GeneratedMetrics

\* C25: after teardown no timer is armed, whatever the consumer calls on
\* the controls it kept (start() included).
C25_NoTimerAfterTeardown ==
    phase = "unmounted" => timers = {} /\ intervalRef = NoTimer

\* C26: once a poll has replaced an earlier snapshot by different metrics,
\* the previousValue of every card is the value the card showed in the
\* snapshot just before (not the value of the first successful poll).
C26_PreviousIsPrecedingPoll ==
    precedingMetrics # <<>> /\ realtimeMetrics # precedingMetrics =>
        \A i \in 1..4 : Cards[i].previousValue = precedingMetrics[i].value

\* C27: the card settles: while it is mounted with no timeout pending
\* (nothing is left that would change it until the props change),
\* displayValue is the value prop and isAnimating is false.
C27_SettledWithoutTimer ==
    cardPhase = "live" /\ cardTimer = NoCardTimer =>
        displayValue = cardValue /\ ~isAnimating

\* C28: exportToCSV and exportToPDF called with no rows throw 'No data to
\* export' with no side effect at all (no blob, no link, no click, no window
\* opened); exportToPDF with rows and a blocked popup throws after the
\* refused window.open, with nothing written and no window left to print.
C28_ExportFailsBeforeSideEffects ==
    [][ /\ lastTableOp' \in {"callCsv", "callPdf", "callPdfBlocked"}
             /\ exportArg' = <<>> =>
               /\ thrownOut' = NoDataError
               /\ domLog' = <<>>
               /\ printWindows' = printWindows
        /\ lastTableOp' = "callPdfBlocked" /\ exportArg' # <<>> =>
               /\ thrownOut' = PopupError
               /\ domLog' = <<"window.open">>
               /\ printWindows' = printWindows ]_vars

C28_Witness ==
    /\ lastTableOp = "callPdfBlocked"
    /\ exportArg = <<>>
    /\ thrownOut = NoDataError
    /\ domLog = <<>>
    /\ printWindows = 0

\* C29: a table export handler runs only from an enabled button (table not
\* loading, filtered rows not empty), throws nothing to its caller and
\* raises exactly one toast: 'Export Failed' with the message of what
\* formatting or export threw (the fallback text when it is not an Error) if
\* one of them threw, the handler's success toast otherwise.
C29_HandlerToastsOnce ==
    [][lastTableOp' \in {"csv", "pdf"} =>
         /\ ~tableLoading
         /\ Len(FilteredRows) > 0
         /\ thrownOut' = NoThrown
         /\ Len(toasts') = 1
         /\ LET threw == IF handlerTrace'.format # NoThrown
                         THEN handlerTrace'.format
                         ELSE handlerTrace'.export
            IN IF threw # NoThrown
               THEN /\ toasts'[1].title = "Export Failed"
                    /\ toasts'[1].description =
                         IF threw.isError THEN threw.message
                         ELSE IF lastTableOp' = "csv"
                              THEN "Failed to export data"
                              ELSE "Failed to export PDF"
               ELSE toasts'[1] = IF lastTableOp' = "csv"
                                 THEN CsvSuccessToast
                                 ELSE PdfSuccessToast]_vars

C29_Witness ==
    /\ lastTableOp = "pdf"
    /\ handlerTrace.called
    /\ handlerTrace.export = PopupError
    /\ thrownOut = NoThrown
    /\ Len(toasts) = 1
    /\ toasts[1].title = "Export Failed"
    /\ toasts[1].description = PopupError.message

\* the row's date falls on a local day from the day of `from` to the day of
\* `to` (the day of `from` when no `to` is picked)
InPickedDays(row) ==
    LET toDate == IF dateRange.to # NoDate THEN dateRange.to ELSE dateRange.from
        day == ParseDate(row.startDate, tzOffset) \div 24
    IN (dateRange.from \div 24) <= day /\ day <= (toDate \div 24)

\* C30: the filtered rows are the data itself when filtering is disabled,
\* no date key is given or no 'from' is picked; otherwise exactly the rows
\* whose date lies from the start of the 'from' day to the end of the 'to'
\* day ('from' day when 'to' is missing), in their order; and a handler that
\* reaches its export function hands it exactly these rows, formatted.
C30_FilterKeepsPickedDays ==
    /\ FilteredRows =
         IF ~enableDateFilter \/ dateFilterKey = NoKey \/ ~dateRange.defined
            \/ dateRange.from = NoDate
         THEN tableData
         ELSE SelectSeq(tableData, InPickedDays)
    /\ lastTableOp \in {"csv", "pdf"} /\ handlerTrace.called =>
         exportArg = [i \in 1 .. Len(FilteredRows) |->
                         FormatRow(FilteredRows[i], tzOffset)]

C30_Witness ==
    /\ lastTableOp = "csv"
    /\ tzOffset = 0 - 5
    /\ dateRange = [defined |-> TRUE, from |-> 24 + 12, to |-> NoDate]
    /\ FilteredRows = <<Campaigns[1], Campaigns[4]>>
    /\ Len(exportArg) = 2
    /\ exportArg[2].id = "4"

TypeOK ==
    /\ phase \in {"rendered", "live", "unmounted"}
    /\ intervalMs \in Intervals
    /\ intervalRef \in Nat
    /\ mountedRef \in BOOLEAN
    /\ Len(inflight) <= MaxInFlight
    /\ now \in 0 .. MaxTime
    /\ metricsData.isLoading \in BOOLEAN

====
